---------------------------- MODULE Spec2Model ----------------------------
(***************************************************************************)
(* State-machine model of the game-state update loop of src/main.js: the   *)
(* planet registry, the laser, the score, the match clock, the avatar and  *)
(* the frame loop driven by requestAnimationFrame.                         *)
(*                                                                         *)
(* Numbers.  gameTime, laserTime and cooldownTime are IEEE-754 doubles in  *)
(* the program and are modelled bit-exactly: a double is <<sign, hi, mid,  *)
(* lo>>, its magnitude being the integer hi*2^48 + mid*2^24 + lo counted   *)
(* in units of 2^-58 (the unit in the last place of the double 1/60) and   *)
(* rounded to 53 significant bits, ties to even, after every operation.    *)
(* Avatar coordinates are fixed-point, in thousandths of a world unit, and *)
(* the avatar yaw is counted in steps of AVATAR_ROTATION_SPEED.  The camera *)
(* offsets are fixed-point too, in millionths of a radian, each operation  *)
(* rounded to the nearest millionth.                                       *)
(*                                                                         *)
(* Geometry.  Three.js decides which meshes a ray crosses.  The model      *)
(* divides the sky into NumSectors sectors: a planet lies in the sector    *)
(* its spawn angle falls in, a laser direction is a sector (or 0, a ray    *)
(* that crosses no planet), and the ray crosses every planet group of its  *)
(* sector, nearest first.  A planet seen off-axis is crossed through its   *)
(* decoration (particles, ring, glow or moon) before its body.             *)
(*                                                                         *)
(* Math.random is a linear congruential generator whose seed Init draws.   *)
(***************************************************************************)
EXTENDS Integers, Sequences, FiniteSets, TLC

\* laser = null: no beam.
NULL == [direction |-> 0 - 1, origin |-> <<>>, heading |-> <<>>]
\* avatarHead undefined: the avatar is not loaded.
NoHead == <<>>
\* No planet along the ray.
NoHit == [id |-> 0, points |-> 0, object |-> "none", crossed |-> 0]

(***************************************************************************)
(* Program constants (src/main.js:4-48).                                   *)
(***************************************************************************)
CUBE_SIZE == 1600
AVATAR_MOVEMENT_SPEED == 2
LASER_MAX_DURATION_S == 5
GAME_DURATION_S == 300
TotalTarget == 100
CommonTarget == 40
ExoticTarget == 40
RareTarget == 20
BatchLimit == 5
\* Camera: millionths of a radian; the return speed in thousandths.
MAX_Y_ROTATION == 3141593
MAX_X_ROTATION == 1047198
ROTATION_SPEED == 30000
CAMERA_RETURN_SPEED == 8

PLANET_CONFIG ==
  [ common |-> [count |-> 40, minPoints |-> 50,  maxPoints |-> 150,
                minDistance |-> 2400, maxDistance |-> 3000],
    exotic |-> [count |-> 14, minPoints |-> 200, maxPoints |-> 350,
                minDistance |-> 2600, maxDistance |-> 3200],
    rare   |-> [count |-> 6,  minPoints |-> 500, maxPoints |-> 800,
                minDistance |-> 2500, maxDistance |-> 3500] ]

Categories == {"common", "exotic", "rare"}

(***************************************************************************)
(* Bounds of the model.                                                    *)
(***************************************************************************)
NumSeeds == 1
NumSectors == 1
\* Spec: display frames followed and input events taken.
MaxFrames == 22
MaxInputs == 1
\* SpecLaser: input events arrive in the first EarlyFrames frames or from
\* frame LateFrames on, LaserInputs of them at most, for LaserFrames frames.
EarlyFrames == 2
LateFrames == 330
LaserFrames == 336
LaserInputs == 3
\* SpecSession: SessionInputs input events arrive in the first SessionEarly
\* frames; every session is followed for WallFrames frames, and the sessions
\* of a player who then holds at most the rise key are followed through the
\* end of the match and a restart, SessionFrames frames in all.
SessionEarly == 1
SessionInputs == 2
WallFrames == 405
SessionFrames == 18005
\* SpecMatch: MatchInputs input events arrive at frame MatchLate or from
\* frame MatchEnd to frame MatchFrames; the session without any input is
\* followed through a second match, RematchFrames frames in all.
MatchLate == 17690
MatchEnd == 17997
MatchInputs == 2
MatchFrames == 18004
RematchFrames == 36006
\* SpecCamera: the look keys change in frame CameraEarly or frame CameraHold,
\* CameraInputs times at most, and CameraFrames frames are followed.
CameraEarly == 1
CameraHold == 106
CameraInputs == 2
CameraFrames == 1500
\* SpecBurn: the button goes down in the first BurnEarly frames, the pointer
\* moves from frame BurnLate on, BurnInputs events at most, BurnFrames frames
\* are followed.
BurnEarly == 1
BurnLate == 285
BurnInputs == 2
BurnFrames == 305

(***************************************************************************)
(* IEEE-754 double arithmetic on the values the clocks take.               *)
(***************************************************************************)
Limb == 2^24

MagAdd(a, b) ==
  LET l == a[3] + b[3]
      m == a[2] + b[2] + (l \div Limb)
      h == a[1] + b[1] + (m \div Limb)
  IN  <<h, m % Limb, l % Limb>>

\* a - b for a >= b
MagSub(a, b) ==
  LET l  == a[3] - b[3]
      bl == IF l < 0 THEN 1 ELSE 0
      m  == a[2] - b[2] - bl
      bm == IF m < 0 THEN 1 ELSE 0
  IN  <<a[1] - b[1] - bm, m + bm * Limb, l + bl * Limb>>

MagLt(a, b) ==
  \/ a[1] < b[1]
  \/ a[1] = b[1] /\ a[2] < b[2]
  \/ a[1] = b[1] /\ a[2] = b[2] /\ a[3] < b[3]

RECURSIVE Pow2Floor(_)
Pow2Floor(n) == IF n < 2 THEN 1 ELSE 2 * Pow2Floor(n \div 2)

\* Round a magnitude to 53 significant bits, ties to even.  Bit 53 of the
\* magnitude is bit 5 of hi, so nothing is lost while hi < 32.
MagRound(a) ==
  IF a[1] < 32 THEN a
  ELSE LET q    == Pow2Floor(a[1]) \div 16
           r    == a[3] % q
           odd  == (a[3] \div q) % 2 = 1
           down == <<a[1], a[2], a[3] - r>>
       IN  IF 2 * r > q \/ (2 * r = q /\ odd)
           THEN MagAdd(down, <<0, 0, q>>)
           ELSE down

Mag(x) == <<x[2], x[3], x[4]>>
Dbl(s, a) == <<s, a[1], a[2], a[3]>>

FZero == <<1, 0, 0, 0>>

FAdd(x, y) ==
  IF x[1] = y[1] THEN Dbl(x[1], MagRound(MagAdd(Mag(x), Mag(y))))
  ELSE IF Mag(x) = Mag(y) THEN FZero
  ELSE IF MagLt(Mag(y), Mag(x))
       THEN Dbl(x[1], MagRound(MagSub(Mag(x), Mag(y))))
       ELSE Dbl(y[1], MagRound(MagSub(Mag(y), Mag(x))))

FNeg(x) == <<0 - x[1], x[2], x[3], x[4]>>

FSub(x, y) == FAdd(x, FNeg(y))

FLt(x, y) ==
  IF x[1] # y[1] THEN x[1] < y[1] /\ (Mag(x) # <<0, 0, 0>> \/ Mag(y) # <<0, 0, 0>>)
  ELSE IF x[1] = 1 THEN MagLt(Mag(x), Mag(y)) ELSE MagLt(Mag(y), Mag(x))

FLe(x, y) == ~FLt(y, x)

FMax(x, y) == IF FLt(x, y) THEN y ELSE x

\* The double nearest to 1/60: 0x1.1111111111111p-6.
FRAME_DT == <<1, 17, 1118481, 1118481>>
\* Whole and half seconds are exact doubles: n seconds are n * 2^10 in hi.
Seconds(n) == <<1, n * 1024, 0, 0>>
LASER_MAX_DURATION == Seconds(LASER_MAX_DURATION_S)
LASER_COOLDOWN_DURATION == <<1, 512, 0, 0>>
GAME_DURATION == Seconds(GAME_DURATION_S)

(***************************************************************************)
(* Math.random: a linear congruential generator.  Floor(Math.random() * n) *)
(* is RandInt(r, n) for the generator state r.                             *)
(***************************************************************************)
RngMod == 65537

NextRandom(r) == (75 * r + 74) % RngMod

RandInt(r, n) == (r * n) \div RngMod

(***************************************************************************)
(* Planet creation.                                                        *)
(***************************************************************************)
\* addFancyPlanet: the planet mesh carries userData {points, category}; the
\* group is pushed at the end of planets.
addFancyPlanet(s, category, sector, distance, offAxis, points) ==
  [s EXCEPT !.planets = Append(@, [id |-> s.nextId, category |-> category,
                                   points |-> points, sector |-> sector,
                                   distance |-> distance, offAxis |-> offAxis]),
            !.nextId = @ + 1]

\* createSinglePlanet: distance, theta, phi and points are drawn in this order.
Drawn(s, category, config, r1, r2, r3, r4) ==
  addFancyPlanet([s EXCEPT !.rng = r4], category,
    RandInt(r2, NumSectors) + 1,
    RandInt(r1, config.maxDistance - config.minDistance) + config.minDistance,
    RandInt(r3, 4) = 0,
    RandInt(r4, config.maxPoints - config.minPoints + 1) + config.minPoints)

createSinglePlanet(s, category) ==
  Drawn(s, category, PLANET_CONFIG[category],
        NextRandom(s.rng),
        NextRandom(NextRandom(s.rng)),
        NextRandom(NextRandom(NextRandom(s.rng))),
        NextRandom(NextRandom(NextRandom(NextRandom(s.rng)))))

\* The second declaration of createPlanetCategory (src/main.js:228) is the one
\* in force: a later function declaration of the same name replaces the earlier
\* one, so the count argument passed by createPlanets is ignored.
\* (The test on s1 makes TLC evaluate each planet before the next iteration.)
RECURSIVE createPlanetLoop(_, _, _)
createPlanetLoop(s, category, n) ==
  IF n = 0 THEN s
  ELSE LET s1 == createSinglePlanet(s, category)
       IN  IF s1.nextId > s.nextId
           THEN createPlanetLoop(s1, category, n - 1)
           ELSE s1

createPlanetCategory(s, category, count) ==
  createPlanetLoop(s, category, PLANET_CONFIG[category].count)

createPlanets(s) ==
  createPlanetCategory(
    createPlanetCategory(
      createPlanetCategory([s EXCEPT !.planets = <<>>], "common", CommonTarget),
      "exotic", ExoticTarget),
    "rare", RareTarget)

Count(planets, category) ==
  Cardinality({i \in 1..Len(planets) : planets[i].category = category})


(***************************************************************************)
(* The program state: the globals of src/main.js:50-83, the pending        *)
(* requestAnimationFrame callbacks of animate and the game-over screens    *)
(* in the document.                                                        *)
(***************************************************************************)
VARIABLES
  planets,       \* the planets array, in creation order
  nextId,        \* identity of the next planet group created
  rng,           \* state of Math.random
  score, gameTime, gameOver,
  laserActive, laserTime, cooldownTime,
  laser,         \* NULL or the beam's userData [direction, origin]
  avatar,        \* "none" while the asset loads, then "glb" or "simple"
  position,      \* avatar.position, thousandths of a unit
  rotation,      \* avatar.rotation.y, steps of AVATAR_ROTATION_SPEED
  avatarHead,    \* avatarHead.position, or NoHead before the avatar exists
  controls,      \* the keys held down
  cameraAngleX,  \* camera pitch offset, millionths of a radian
  cameraAngleY,  \* camera yaw offset, millionths of a radian
  raf,           \* animate callbacks waiting for the next display frame
  screens,       \* game-over screens (each with a restart listener)
  frames,        \* history: animate calls so far
  ticks,         \* history: animate calls of the current match that ran
  inputs,        \* history: mouse and key events so far
  calm,          \* history: animate calls since a planet was last destroyed
  burn,          \* history: animate calls since the fire command of the burn, or -1
  ev             \* history: the last step and what it did

progVars == <<planets, nextId, rng, score, gameTime, gameOver, laserActive,
              laserTime, cooldownTime, laser, avatar, position, rotation,
              avatarHead, controls, cameraAngleX, cameraAngleY, raf, screens>>
vars == <<planets, nextId, rng, score, gameTime, gameOver, laserActive,
          laserTime, cooldownTime, laser, avatar, position, rotation,
          avatarHead, controls, cameraAngleX, cameraAngleY, raf, screens,
          frames, ticks, inputs, calm, burn, ev>>

\* The program state as one value, so that handlers compose as in the code.
G ==
  [planets |-> planets, nextId |-> nextId, rng |-> rng, score |-> score,
   gameTime |-> gameTime, gameOver |-> gameOver, laserActive |-> laserActive,
   laserTime |-> laserTime, cooldownTime |-> cooldownTime, laser |-> laser,
   avatar |-> avatar, position |-> position, rotation |-> rotation,
   avatarHead |-> avatarHead, controls |-> controls,
   cameraAngleX |-> cameraAngleX, cameraAngleY |-> cameraAngleY, raf |-> raf,
   screens |-> screens]

Commit(s) ==
  /\ planets' = s.planets           /\ nextId' = s.nextId
  /\ rng' = s.rng                   /\ score' = s.score
  /\ gameTime' = s.gameTime         /\ gameOver' = s.gameOver
  /\ laserActive' = s.laserActive   /\ laserTime' = s.laserTime
  /\ cooldownTime' = s.cooldownTime /\ laser' = s.laser
  /\ avatar' = s.avatar             /\ position' = s.position
  /\ rotation' = s.rotation         /\ avatarHead' = s.avatarHead
  /\ controls' = s.controls         /\ raf' = s.raf
  /\ screens' = s.screens           /\ cameraAngleX' = s.cameraAngleX
  /\ cameraAngleY' = s.cameraAngleY

Keys == {"w", "s", "a", "d", "q", "e"}
CameraKeys == {"j", "l", "i", "k"}
Directions == 0..NumSectors

(***************************************************************************)
(* Mouse handlers and the beam.                                            *)
(***************************************************************************)
\* The orientation of the camera, which follows the avatar yaw and the two
\* camera offsets: raycaster.setFromCamera turns the pointer position into a
\* world direction under it.
Heading(s) == <<s.rotation, s.cameraAngleX, s.cameraAngleY>>

\* The beam keeps the direction computed when it was created, under the
\* camera heading of that moment.  Reading avatarHead.position throws while
\* the avatar is not loaded: the beam is then not created and laser keeps its
\* value.
createEnhancedLaserBeam(s, direction) ==
  IF s.avatarHead = NoHead THEN s
  ELSE [s EXCEPT !.laser = [direction |-> direction, origin |-> s.avatarHead,
                            heading |-> Heading(s)]]

\* handleMouseDown without its guard.
handleMouseDownUnguarded(s, direction) ==
  createEnhancedLaserBeam(
    [s EXCEPT !.laserActive = TRUE, !.laserTime = FZero], direction)

handleMouseDown(s, direction) ==
  IF ~s.laserActive /\ FLe(s.cooldownTime, FZero)
  THEN createEnhancedLaserBeam(
         [s EXCEPT !.laserActive = TRUE, !.laserTime = FZero], direction)
  ELSE s

\* handleMouseUp starting the cooldown of a full burn.
handleMouseUpCooldown(s) ==
  IF s.laserActive
  THEN [s EXCEPT !.laserActive = FALSE, !.laser = NULL,
                 !.cooldownTime = LASER_COOLDOWN_DURATION]
  ELSE s

handleMouseUp(s) ==
  IF s.laserActive
  THEN [s EXCEPT !.laserActive = FALSE, !.laser = NULL, !.cooldownTime = FZero]
  ELSE s

handleMouseMove(s, direction) ==
  IF s.laserActive /\ s.laser # NULL
  THEN createEnhancedLaserBeam(s, direction)
  ELSE s

handleKeyDown(s, key) == [s EXCEPT !.controls = @ \cup {key}]

handleKeyUp(s, key) == [s EXCEPT !.controls = @ \ {key}]

(***************************************************************************)
(* Game over.                                                              *)
(***************************************************************************)
endGame(s) ==
  [s EXCEPT !.gameOver = TRUE, !.laserActive = FALSE, !.laser = NULL,
            !.screens = @ + 1]

(***************************************************************************)
(* The per-frame updates.                                                  *)
(***************************************************************************)
\* remainingTime <= 0 ends the game, in the same call.
CheckGameOver(s) ==
  IF FLe(FMax(FZero, FSub(GAME_DURATION, s.gameTime)), FZero)
  THEN endGame(s)
  ELSE s

updateGameTime(s) ==
  IF s.gameOver THEN s
  ELSE CheckGameOver([s EXCEPT !.gameTime = FAdd(@, FRAME_DT)])

\* 1000 * sin and 1000 * cos of a yaw of k steps of 0.01 rad (Bhaskara's
\* rational approximation on a half turn of 314 steps).
HalfTurn == 314

SinMilli(k) ==
  LET a == k % (2 * HalfTurn)
      b == IF a < HalfTurn THEN a ELSE a - HalfTurn
      v == (16000 * b * (HalfTurn - b))
             \div (5 * HalfTurn * HalfTurn - 4 * b * (HalfTurn - b))
  IN  IF a < HalfTurn THEN v ELSE 0 - v

CosMilli(k) == SinMilli(k + HalfTurn \div 2)

Min(a, b) == IF a < b THEN a ELSE b
Max(a, b) == IF a < b THEN b ELSE a

halfSize == (CUBE_SIZE \div 2) * 1000

\* Clamp without the upper bound.
ClampLow(v) == Max(0 - halfSize, v)

Clamp(v) == Max(0 - halfSize, Min(halfSize, v))

\* The avatar rotation after the rotate keys.
Turned(s) ==
  s.rotation + (IF "a" \in s.controls THEN 1 ELSE 0)
             - (IF "d" \in s.controls THEN 1 ELSE 0)

\* The forward and backward keys move along direction = (0, 0, -1) turned by
\* the yaw, which is (-sin, 0, -cos); the up and down keys move along y.
Moved(s, rot) ==
  LET fwd == IF "w" \in s.controls THEN 1 ELSE 0
      bwd == IF "s" \in s.controls THEN 1 ELSE 0
  IN  << s.position[1] + (fwd - bwd) * SinMilli(rot) * AVATAR_MOVEMENT_SPEED,
         s.position[2]
           + (IF "q" \in s.controls THEN AVATAR_MOVEMENT_SPEED * 1000 ELSE 0)
           - (IF "e" \in s.controls THEN AVATAR_MOVEMENT_SPEED * 1000 ELSE 0),
         s.position[3] + (fwd - bwd) * CosMilli(rot) * AVATAR_MOVEMENT_SPEED >>

\* Clamp position to the cube; the head follows the avatar.
Clamped(p) == <<Clamp(p[1]), Clamp(p[2]), Clamp(p[3])>>

Placed(s, rot, p) ==
  [s EXCEPT !.rotation = rot, !.position = p,
            !.avatarHead = <<p[1], p[2] + 3000, p[3]>>]

Rotated(s, rot) == Placed(s, rot, Clamped(Moved(s, rot)))

updateAvatarMovement(s) ==
  IF s.avatar = "none" \/ s.avatarHead = NoHead THEN s
  ELSE Rotated(s, Turned(s))

(***************************************************************************)
(* The camera offsets.                                                     *)
(***************************************************************************)
Abs(v) == IF v < 0 THEN 0 - v ELSE v

\* angle *= 1 - CAMERA_RETURN_SPEED
\* Decay with the factor 1 + CAMERA_RETURN_SPEED.
DecayOutward(angle) ==
  IF angle < 0
  THEN angle - ((0 - angle) * CAMERA_RETURN_SPEED + 500) \div 1000
  ELSE angle + (angle * CAMERA_RETURN_SPEED + 500) \div 1000

Decay(angle) ==
  IF angle < 0
  THEN angle + ((0 - angle) * CAMERA_RETURN_SPEED + 500) \div 1000
  ELSE angle - (angle * CAMERA_RETURN_SPEED + 500) \div 1000

\* One axis: the key that raises the offset, then the key that lowers it,
\* then the return to the centre when neither is held.
\* Raised without Math.min.
RaisedUnclamped(angle, plus, max) ==
  IF plus THEN angle + ROTATION_SPEED ELSE angle

Raised(angle, plus, max) ==
  IF plus THEN Min(max, angle + ROTATION_SPEED) ELSE angle

Lowered(angle, minus, max) ==
  IF minus THEN Max(0 - max, angle - ROTATION_SPEED) ELSE angle

Returning(angle, plus, minus) ==
  IF ~plus /\ ~minus THEN Decay(angle) ELSE angle

Look(angle, plus, minus, max) ==
  Returning(Lowered(Raised(angle, plus, max), minus, max), plus, minus)

updateCamera(s) ==
  IF s.avatar = "none" THEN s
  ELSE [s EXCEPT
         !.cameraAngleY = Look(@, "j" \in s.controls, "l" \in s.controls,
                               MAX_Y_ROTATION),
         !.cameraAngleX = Look(@, "i" \in s.controls, "k" \in s.controls,
                               MAX_X_ROTATION)]

\* Raycaster.intersectObjects(planets): the meshes the ray crosses, sorted by
\* distance.  An intersection names the group (its index in planets) and the
\* mesh of the group that the ray meets first.
\* ascSort of the intersections: by distance, groups at the same distance in
\* the order of the planets array (Array.prototype.sort is stable).
Nearer(pl, i, j) ==
  \/ pl[i].distance < pl[j].distance
  \/ pl[i].distance = pl[j].distance /\ i < j

SortByDistance(list, pl) == SortSeq(list, LAMBDA i, j : Nearer(pl, i, j))

Crossed(pl, ray) ==
  SelectSeq([i \in 1..Len(pl) |-> i], LAMBDA i : pl[i].sector = ray.direction)

intersectObjects(pl, ray) ==
  LET sorted == SortByDistance(Crossed(pl, ray), pl)
  IN  [k \in 1..Len(sorted) |->
         [group  |-> sorted[k],
          object |-> IF pl[sorted[k]].offAxis THEN "decor" ELSE "planet"]]

RemoveAt(seq, i) == SubSeq(seq, 1, i - 1) \o SubSeq(seq, i + 1, Len(seq))

\* The farthest intersection instead of the nearest.
LastHit(intersects) == intersects[Len(intersects)]

\* The intersection the laser acts on.
FirstHit(intersects) == intersects[1]

\* points of the mesh hit: the planet mesh carries them; a decoration mesh has
\* an empty userData, so the fallback applies with category undefined.
HitPoints(pl, hit) ==
  IF hit.object = "planet" THEN pl[hit.group].points ELSE 10

\* updateLaser returns the state and whether it threw.  It throws
\*  - after removing a planet hit through a decoration mesh, on
\*    planet.userData.material.uniforms (material is undefined);
\*  - at the end of a burn without a beam, on laser.userData.
Returned(s) == [s |-> s, threw |-> FALSE]
Thrown(s) == [s |-> s, threw |-> TRUE]

\* if (laserTime >= LASER_MAX_DURATION) { ... }
LaserEnd(s) ==
  IF FLe(LASER_MAX_DURATION, s.laserTime)
  THEN IF s.laser = NULL
       THEN Thrown([s EXCEPT !.laserActive = FALSE])
       ELSE Returned([s EXCEPT !.laserActive = FALSE, !.laser = NULL,
                               !.cooldownTime = LASER_COOLDOWN_DURATION])
  ELSE Returned(s)

\* LaserScore with score = points in place of score += points.
LaserScoreAssign(s, hit) ==
  [s EXCEPT !.score = HitPoints(s.planets, hit),
            !.planets = RemoveAt(@, hit.group)]

\* if (intersects.length > 0) { ... }: score, remove the group, explode.
LaserScore(s, hit) ==
  [s EXCEPT !.score = @ + HitPoints(s.planets, hit),
            !.planets = RemoveAt(@, hit.group)]

Exploded(s, hit) ==
  IF hit.object # "planet" THEN Thrown(s) ELSE LaserEnd(s)

LaserHit(s, intersects) ==
  IF Len(intersects) > 0
  THEN Exploded(LaserScore(s, FirstHit(intersects)), FirstHit(intersects))
  ELSE LaserEnd(s)

\* if (laser) { ... }: the beam follows the head, then the collision test.
LaserBurn(s) ==
  IF s.laser # NULL
  THEN LaserHit([s EXCEPT !.laser.origin = s.avatarHead],
                intersectObjects(s.planets, s.laser))
  ELSE LaserEnd(s)

\* updateLaser without the step cooldownTime -= delta.
updateLaserKeepCooldown(s) ==
  IF s.avatar = "none" \/ s.avatarHead = NoHead THEN Returned(s)
  ELSE IF s.laserActive
       THEN LaserBurn([s EXCEPT !.laserTime = FAdd(@, FRAME_DT)])
       ELSE Returned(s)

updateLaser(s) ==
  IF s.avatar = "none" \/ s.avatarHead = NoHead THEN Returned(s)
  ELSE IF s.laserActive
       THEN LaserBurn([s EXCEPT !.laserTime = FAdd(@, FRAME_DT)])
       ELSE IF FLt(FZero, s.cooldownTime)
            THEN Returned([s EXCEPT !.cooldownTime = FSub(@, FRAME_DT)])
            ELSE Returned(s)

\* The respawn loop of updatePlanets: the three counts are taken once, before
\* the loop, and are not updated by the planets the loop creates.
RECURSIVE respawn(_, _, _, _, _)
respawn(s, toAdd, commonCount, exoticCount, rareCount) ==
  IF toAdd = 0 THEN s
  ELSE LET s1 == IF commonCount < CommonTarget THEN createSinglePlanet(s, "common")
                 ELSE IF exoticCount < ExoticTarget THEN createSinglePlanet(s, "exotic")
                 ELSE IF rareCount < RareTarget THEN createSinglePlanet(s, "rare")
                 ELSE s
       IN  IF s1.nextId >= s.nextId
           THEN respawn(s1, toAdd - 1, commonCount, exoticCount, rareCount)
           ELSE s1

\* if (planets.length > 100) { ... }: the oldest planets go first.
Evicted(s) ==
  IF Len(s.planets) > TotalTarget
  THEN [s EXCEPT !.planets = SubSeq(@, Len(@) - TotalTarget + 1, Len(@))]
  ELSE s

\* updatePlanets without Math.min(..., 5).
updatePlanetsUnbatched(s) ==
  Evicted(IF Len(s.planets) < TotalTarget
          THEN respawn(s, TotalTarget - Len(s.planets),
                       Count(s.planets, "common"), Count(s.planets, "exotic"),
                       Count(s.planets, "rare"))
          ELSE s)

\* Refilled with toAdd = 5 whatever the number of planets missing.
RefilledWholeBatch(s) ==
  IF Len(s.planets) < TotalTarget
  THEN respawn(s, BatchLimit,
               Count(s.planets, "common"), Count(s.planets, "exotic"),
               Count(s.planets, "rare"))
  ELSE s

\* if (planets.length < 100) { ... }
Refilled(s) ==
  IF Len(s.planets) < TotalTarget
  THEN respawn(s, Min(TotalTarget - Len(s.planets), BatchLimit),
               Count(s.planets, "common"), Count(s.planets, "exotic"),
               Count(s.planets, "rare"))
  ELSE s

updatePlanets(s) == Evicted(Refilled(s))

\* animate: requestAnimationFrame first, then the updates in the order of the
\* code.  An exception thrown by updateLaser ends the call: updatePlanets does
\* not run in that frame, and the callback already requested stays pending.
Maintained(r) == IF r.threw THEN r.s ELSE updatePlanets(r.s)

\* animate without its test of gameOver.
animateAlways(s) ==
  Maintained(updateLaser(updateCamera(updateAvatarMovement(
    updateGameTime([s EXCEPT !.raf = @ + 1])))))

\* animate with updateGameTime after the other updates.
animateClockLast(s) ==
  IF s.gameOver THEN s
  ELSE updateGameTime(Maintained(updateLaser(updateCamera(
         updateAvatarMovement([s EXCEPT !.raf = @ + 1])))))

animate(s) ==
  IF s.gameOver THEN s
  ELSE Maintained(updateLaser(updateCamera(updateAvatarMovement(
         updateGameTime([s EXCEPT !.raf = @ + 1])))))

\* The click listener of the restart button.
\* The reset of the listener without cooldownTime = 0.
restartResetKeepCooldown(s) ==
  createPlanets(
    [s EXCEPT !.gameOver = FALSE, !.gameTime = FZero, !.score = 0,
              !.laserActive = FALSE, !.laserTime = FZero, !.laser = NULL,
              !.position = IF s.avatar # "none" THEN <<0, 0, 0>> ELSE @,
              !.screens = @ - 1])

\* The listener resets the game state, then starts the loop again, which
\* runs the first tick of the new match at once.
restartReset(s) ==
  createPlanets(
    [s EXCEPT !.gameOver = FALSE, !.gameTime = FZero, !.score = 0,
              !.laserActive = FALSE, !.cooldownTime = FZero,
              !.laserTime = FZero, !.laser = NULL,
              !.position = IF s.avatar # "none" THEN <<0, 0, 0>> ELSE @,
              !.screens = @ - 1])

restartClick(s) == animate(restartReset(s))

\* loadAvatar: the load callback, and the error callback.  createSimpleAvatar
\* calls initAvatarTrail, which is not defined anywhere: the error callback
\* throws there and never reaches animate().
loadAvatarDone(s) ==
  animate([s EXCEPT !.avatar = "glb", !.position = <<0, 0, 0>>,
                    !.avatarHead = <<0, 1500, 0>>])

createSimpleAvatar(s) ==
  [s EXCEPT !.avatar = "simple", !.position = <<0, 0, 0>>,
            !.avatarHead = <<0, 3000, 0>>]

loadAvatarError(s) == createSimpleAvatar(s)


(***************************************************************************)
(* History variables' helpers.                                             *)
(***************************************************************************)
\* What the ray of this animate call crosses first, read off the state in
\* which updateLaser starts: NoHit, or the planet group, its points, the mesh
\* met first and the number of groups along the ray.
HitOf(pl, intersects) ==
  IF Len(intersects) = 0 THEN NoHit
  ELSE [id      |-> pl[intersects[1].group].id,
        points  |-> pl[intersects[1].group].points,
        object  |-> intersects[1].object,
        crossed |-> Len(intersects)]

RayHit(s) ==
  IF s.avatar = "none" \/ ~s.laserActive \/ s.laser = NULL THEN NoHit
  ELSE HitOf(s.planets, intersectObjects(s.planets, s.laser))

TickHit(s) ==
  IF s.gameOver THEN NoHit
  ELSE RayHit(updateAvatarMovement(updateGameTime(s)))

Event(kind, hit) ==
  [kind |-> kind, wasActive |-> laserActive,
   wasCooling |-> FLt(FZero, cooldownTime), wasScore |-> score,
   hit |-> hit, prevKind |-> ev.kind, prevWasActive |-> ev.wasActive]

\* History of a step that runs animate once.
Ticked(kind, hit) ==
  /\ ev' = Event(kind, hit)
  /\ frames' = frames + 1
  /\ ticks' = IF gameOver THEN ticks ELSE ticks + 1
  /\ calm' = IF hit # NoHit THEN 0 ELSE calm + 1
  /\ burn' = IF burn < 0 \/ gameOver' THEN 0 - 1 ELSE burn + 1
  /\ UNCHANGED inputs

\* History of an input event.
Input(kind, newBurn) ==
  /\ ev' = Event(kind, NoHit)
  /\ inputs' = inputs + 1
  /\ burn' = newBurn
  /\ UNCHANGED <<frames, ticks, calm>>

(***************************************************************************)
(* Initial state: init() has run, the avatar asset is loading.             *)
(***************************************************************************)
InitState(seed) ==
  createPlanets(
    [planets |-> <<>>, nextId |-> 1, rng |-> seed, score |-> 0,
     gameTime |-> FZero, gameOver |-> FALSE, laserActive |-> FALSE,
     laserTime |-> FZero, cooldownTime |-> FZero, laser |-> NULL,
     avatar |-> "none", position |-> <<0, 0, 0>>, rotation |-> 0,
     avatarHead |-> NoHead, controls |-> {}, cameraAngleX |-> 0,
     cameraAngleY |-> 0, raf |-> 0, screens |-> 0])

Init ==
  /\ \E seed \in 1..NumSeeds :
       LET s == InitState(seed)
       IN  /\ planets = s.planets           /\ nextId = s.nextId
           /\ rng = s.rng                   /\ score = s.score
           /\ gameTime = s.gameTime         /\ gameOver = s.gameOver
           /\ laserActive = s.laserActive   /\ laserTime = s.laserTime
           /\ cooldownTime = s.cooldownTime /\ laser = s.laser
           /\ avatar = s.avatar             /\ position = s.position
           /\ rotation = s.rotation         /\ avatarHead = s.avatarHead
           /\ controls = s.controls         /\ raf = s.raf
           /\ screens = s.screens           /\ cameraAngleX = s.cameraAngleX
           /\ cameraAngleY = s.cameraAngleY
  /\ frames = 0 /\ ticks = 0 /\ inputs = 0 /\ calm = 0 /\ burn = 0 - 1
  /\ ev = [kind |-> "init", wasActive |-> FALSE, wasCooling |-> FALSE,
           wasScore |-> 0, hit |-> NoHit, prevKind |-> "init",
           prevWasActive |-> FALSE]

(***************************************************************************)
(* Actions: one per callback or event handler.                             *)
(***************************************************************************)
LoadAvatarDone ==
  /\ avatar = "none"
  /\ Commit(loadAvatarDone(G))
  /\ Ticked("load", NoHit)

LoadAvatarError ==
  /\ avatar = "none"
  /\ Commit(loadAvatarError(G))
  /\ ev' = Event("loaderror", NoHit)
  /\ UNCHANGED <<frames, ticks, inputs, calm, burn>>

\* One pending requestAnimationFrame callback of animate runs.
Frame ==
  /\ raf > 0
  /\ Commit(animate([G EXCEPT !.raf = @ - 1]))
  /\ Ticked("frame", TickHit(G))

MouseDown(direction) ==
  /\ Commit(handleMouseDown(G, direction))
  /\ Input("mousedown",
           IF ~laserActive /\ FLe(cooldownTime, FZero)
              /\ avatarHead # NoHead /\ ~gameOver
           THEN 0 ELSE burn)

MouseUp ==
  /\ Commit(handleMouseUp(G))
  /\ Input("mouseup", 0 - 1)

MouseMove(direction) ==
  /\ Commit(handleMouseMove(G, direction))
  /\ Input("mousemove", burn)

KeyDown(key) ==
  /\ key \notin controls
  /\ Commit(handleKeyDown(G, key))
  /\ Input("keydown", burn)

KeyUp(key) ==
  /\ key \in controls
  /\ Commit(handleKeyUp(G, key))
  /\ Input("keyup", burn)

RestartClick ==
  /\ screens > 0
  /\ Commit(restartClick(G))
  /\ ev' = Event("restart", NoHit)
  /\ frames' = frames + 1
  /\ ticks' = 1
  /\ calm' = 1
  /\ burn' = 0 - 1
  /\ UNCHANGED inputs


(***************************************************************************)
(* Spec: the registry and the scoring.  The first MaxFrames display frames *)
(* of a session with at most MaxInputs mouse events, at any time.          *)
(***************************************************************************)
Next ==
  \/ LoadAvatarDone
  \/ LoadAvatarError
  \/ frames < MaxFrames /\ Frame
  \/ inputs < MaxInputs /\ \E d \in Directions : MouseDown(d)
  \/ inputs < MaxInputs /\ MouseUp
  \/ inputs < MaxInputs /\ \E d \in Directions : MouseMove(d)

Spec == Init /\ [][Next]_vars

(***************************************************************************)
(* SpecLaser: the laser over a whole burn and its cooldown.  The player    *)
(* presses and releases the button early in the session and again around   *)
(* the end of the burn.                                                    *)
(***************************************************************************)
LaserOpen == frames <= EarlyFrames \/ frames >= LateFrames

NextLaser ==
  \/ LoadAvatarDone
  \/ frames < LaserFrames /\ Frame
  \/ inputs < LaserInputs /\ LaserOpen /\ \E d \in Directions : MouseDown(d)
  \/ inputs < LaserInputs /\ LaserOpen /\ MouseUp

SpecLaser == Init /\ [][NextLaser]_vars

(***************************************************************************)
(* SpecSession: a whole match, its end and a restart, with the movement    *)
(* keys.                                                                   *)
(***************************************************************************)
SessionOpen == inputs < SessionInputs /\ frames <= SessionEarly

Quiet == inputs <= 1 /\ controls \subseteq {"q"}

FrameOpen == frames < WallFrames \/ (Quiet /\ frames < SessionFrames)

NextSession ==
  \/ LoadAvatarDone
  \/ FrameOpen /\ Frame
  \/ SessionOpen /\ \E key \in Keys : KeyDown(key)
  \/ SessionOpen /\ \E key \in Keys : KeyUp(key)
  \/ SessionOpen /\ \E d \in 1..NumSectors : MouseDown(d)
  \/ RestartClick

SpecSession == Init /\ [][NextSession]_vars

(***************************************************************************)
(* SpecMatch: the end of a match.  The player acts late in the match,      *)
(* around its last tick and on the game-over screen.                       *)
(***************************************************************************)
MatchKeys == {"q", "a", "l"}

MatchOpen ==
  /\ inputs < MatchInputs
  /\ frames = MatchLate \/ (MatchEnd <= frames /\ frames <= MatchFrames)

MatchFrameOpen ==
  frames < MatchFrames \/ (inputs = 0 /\ frames < RematchFrames)

NextMatch ==
  \/ LoadAvatarDone
  \/ MatchFrameOpen /\ Frame
  \/ MatchOpen /\ \E key \in MatchKeys : KeyDown(key)
  \/ MatchOpen /\ \E d \in Directions : MouseDown(d)
  \/ MatchOpen /\ MouseUp
  \/ RestartClick

SpecMatch == Init /\ [][NextMatch]_vars

(***************************************************************************)
(* SpecCamera: the look keys.  The player presses or releases them right   *)
(* after the start and again once both offsets have had the time to reach  *)
(* their limits; the frames that follow let a released offset die away.    *)
(***************************************************************************)
CameraOpen ==
  /\ inputs < CameraInputs
  /\ frames = CameraEarly \/ frames = CameraHold

NextCamera ==
  \/ LoadAvatarDone
  \/ frames < CameraFrames /\ Frame
  \/ CameraOpen /\ \E key \in CameraKeys : KeyDown(key)
  \/ CameraOpen /\ \E key \in CameraKeys : KeyUp(key)

SpecCamera == Init /\ [][NextCamera]_vars

(***************************************************************************)
(* SpecBurn: one full burn.  The player presses the button right after the *)
(* start, holds it, and moves the pointer in the last ticks of the burn.   *)
(***************************************************************************)
NextBurn ==
  \/ LoadAvatarDone
  \/ frames < BurnFrames /\ Frame
  \/ inputs < BurnInputs /\ frames <= BurnEarly
       /\ \E d \in Directions : MouseDown(d)
  \/ inputs < BurnInputs /\ frames >= BurnLate
       /\ \E d \in Directions : MouseMove(d)

SpecBurn == Init /\ [][NextBurn]_vars

(***************************************************************************)
(* Properties.                                                             *)
(***************************************************************************)
Ids(pl) == {pl[i].id : i \in 1..Len(pl)}

AtTargets ==
  /\ Count(planets, "common") = CommonTarget
  /\ Count(planets, "exotic") = ExoticTarget
  /\ Count(planets, "rare") = RareTarget

\* Ticks in which maintenance fills any deficit, at BatchLimit planets a tick.
SettleTicks == TotalTarget \div BatchLimit

\* C1: in a running session, once no planet has been destroyed for
\* SettleTicks consecutive ticks, the registry holds 40 common, 40 exotic and
\* 20 rare planets.
C1_PopulationAttractor ==
  (avatar = "glb" /\ ~gameOver /\ calm >= SettleTicks) => AtTargets

\* C2: right after the initial setup and right after a restart the registry
\* holds the target population of each category, 40 / 40 / 20.
C2_SeededAtTargets ==
  ev.kind \in {"init", "restart"} => AtTargets

\* C3: in every state each category has at most its target population.
C3_NoCategoryAboveTarget ==
  /\ Count(planets, "common") <= CommonTarget
  /\ Count(planets, "exotic") <= ExoticTarget
  /\ Count(planets, "rare") <= RareTarget

\* C4: an accepted fire command starts a burn with elapsed time 0; without a
\* release the laser is in cooldown with 0.5 s left and no beam exactly 300
\* ticks later, and idle again exactly 30 ticks after that.
C4_LaserTiming ==
  /\ (burn = 0 /\ ev.kind = "mousedown") =>
       (laserActive /\ laserTime = FZero /\ laser # NULL)
  /\ burn = 300 =>
       (~laserActive /\ cooldownTime = LASER_COOLDOWN_DURATION /\ laser = NULL)
  /\ burn = 330 => (~laserActive /\ FLe(cooldownTime, FZero))

\* C5: a mousedown while the laser fires or cools down changes neither
\* laserActive, laserTime, cooldownTime nor the beam.
C5_FireRejected ==
  [][(ev'.kind = "mousedown" /\ (laserActive \/ FLt(FZero, cooldownTime)))
       => /\ laserActive' = laserActive
          /\ laserTime' = laserTime
          /\ cooldownTime' = cooldownTime
          /\ laser' = laser]_vars

C5_RejectedInCooldown ==
  /\ ev.kind = "mousedown" /\ ev.wasCooling /\ ~ev.wasActive
  /\ avatar = "glb"

C7_HitScoresItsPoints ==
  [][(ev'.kind = "frame" /\ ev'.hit # NoHit)
       => /\ score' = score + ev'.hit.points
          /\ ev'.hit.id \notin Ids(planets')]_vars

\* C8: a tick destroys at most one planet, and the planet destroyed is the
\* one nearest to the ray origin among the planets along the ray.
C8_NearestOnly ==
  [][ev'.kind \in {"frame", "load"}
       => /\ Cardinality(Ids(planets) \ Ids(planets')) <= 1
          /\ \A i \in 1..Len(planets) :
               planets[i].id \notin Ids(planets')
                 => /\ laserActive /\ laser # NULL
                    /\ planets[i].sector = laser.direction
                    /\ \A j \in 1..Len(planets) :
                         planets[j].sector = laser.direction
                           => planets[i].distance <= planets[j].distance]_vars

C8_SeveralAlongTheRay ==
  /\ ev.kind = "frame" /\ ev.hit.crossed >= 2
  /\ ev.hit.id \notin Ids(planets)

\* C9: the score is a natural number, no step other than a restart lowers
\* it, and a restart sets it to 0.
C9_ScoreMonotone ==
  /\ score \in Nat
  /\ [][/\ score' \in Nat
        /\ ev'.kind # "restart" => score' >= score
        /\ ev'.kind = "restart" => score' = 0]_vars

C9_RestartAfterScoring ==
  ev.kind = "restart" /\ ev.wasScore > 0 /\ score = 0

\* C10: each coordinate of the avatar position is within half the cube size
\* of the origin, in every state.
C10_AvatarInCube ==
  \A i \in 1..3 : 0 - halfSize <= position[i] /\ position[i] <= halfSize

C10_HeldAtTheWall ==
  /\ ev.kind = "frame" /\ "q" \in controls
  /\ position[2] = halfSize /\ frames > CUBE_SIZE \div (2 * AVATAR_MOVEMENT_SPEED)

\* The tick on which gameTime reaches GAME_DURATION at 60 ticks a second.
EndTick == GAME_DURATION_S * 60

\* The program state apart from the pending animate callbacks.
Core ==
  <<planets, nextId, rng, score, gameTime, gameOver, laserActive, laserTime,
    cooldownTime, laser, avatar, position, rotation, avatarHead, controls,
    cameraAngleX, cameraAngleY, screens>>

FreshMatch(r) ==
  /\ ~r.gameOver /\ r.score = 0 /\ r.gameTime = FZero
  /\ ~r.laserActive /\ r.laser = NULL
  /\ r.cooldownTime = FZero /\ r.laserTime = FZero
  /\ r.position = <<0, 0, 0>>

AsAtStart(r) ==
  /\ FreshMatch(r)
  /\ r.rotation = 0 /\ r.cameraAngleX = 0 /\ r.cameraAngleY = 0
  /\ \A category \in Categories :
       Count(r.planets, category) = Count(InitState(1).planets, category)

\* C13: the reset of the restart listener, run on any game-over state, gives
\* score, elapsed time, phase, laser state, avatar position and yaw, camera
\* offsets and planet counts equal to those of the initial start.
C13_RestartEqualsStart ==
  screens > 0 => AsAtStart(restartReset(G))

\* C14: after the tick in which the game ends the laser is idle: not firing,
\* no beam and no cooldown left, whatever it was before the tick.
C14_EndLeavesLaserIdle ==
  [][(~gameOver /\ gameOver')
       => (~laserActive' /\ laser' = NULL /\ FLe(cooldownTime', FZero))]_vars

\* The frame in the order the specification gives: avatar, camera, laser,
\* registry maintenance, and the match clock last.
ClockLast(r) == updateGameTime(Maintained(r))

TickClockLast(s) ==
  ClockLast(updateLaser(updateCamera(updateAvatarMovement(
    [s EXCEPT !.raf = @ + 1]))))

\* C15: every tick of a running match has the effect of avatar, camera,
\* laser, registry maintenance and then the clock, in that order, so that the
\* clock ends the match only after the laser update of the tick.
C15_ClockAdvancesLast ==
  [][(ev'.kind = "frame" /\ ~gameOver)
       => G' = TickClockLast([G EXCEPT !.raf = @ - 1])]_vars

\* C16: a tick of a running match in which the laser does not fire removes no
\* planet and leaves the score unchanged; while a cooldown runs each tick
\* takes one tick step off it, and a mousedown does not start a burn.
C16_NoTestUnlessFiring ==
  [][/\ (ev'.kind = "frame" /\ ~gameOver /\ ~laserActive)
          => /\ score' = score
             /\ Ids(planets) \subseteq Ids(planets')
             /\ FLt(FZero, cooldownTime)
                  => cooldownTime' = FSub(cooldownTime, FRAME_DT)
     /\ (ev'.kind = "mousedown" /\ FLt(FZero, cooldownTime))
          => (~laserActive' /\ laser' = NULL
              /\ cooldownTime' = cooldownTime)]_vars

C16_CoolingTick ==
  /\ ev.kind = "frame" /\ ev.wasCooling /\ ~ev.wasActive
  /\ ev.prevKind = "mousedown"
  /\ FLt(FZero, cooldownTime) /\ avatar = "glb" /\ ~gameOver

\* C17: after every tick in which the laser fires, the ray of the beam starts
\* at the current head position and has the direction of the pointer under
\* the current pose of avatar and camera.
C17_RayFollowsThePose ==
  (ev.kind = "frame" /\ laserActive /\ laser # NULL)
    => (laser.origin = avatarHead /\ laser.heading = Heading(G))

\* C18: the yaw offset of the camera stays within MAX_Y_ROTATION of 0 and its
\* pitch offset within MAX_X_ROTATION of 0, in every state.
C18_CameraWithinLimits ==
  /\ Abs(cameraAngleY) <= MAX_Y_ROTATION
  /\ Abs(cameraAngleX) <= MAX_X_ROTATION

C18_HeldAtTheLimit ==
  /\ ev.kind = "frame" /\ ev.prevKind = "frame"
  /\ "j" \in controls /\ cameraAngleY = MAX_Y_ROTATION
  /\ frames = CameraHold

\* Offsets below Resolution are not changed by Decay: the step of the return,
\* CAMERA_RETURN_SPEED thousandths of the offset, rounds to 0.
Resolution == 500 \div CAMERA_RETURN_SPEED + 1

\* One tick of the return to the centre, from offset a to offset b: the
\* magnitude does not grow and shrinks while it is above the resolution, the
\* sign is kept, and the step is CAMERA_RETURN_SPEED thousandths of the
\* offset within the rounding.
Contracts(a, b) ==
  /\ Abs(b) <= Abs(a)
  /\ Abs(a) >= Resolution => Abs(b) < Abs(a)
  /\ a >= 0 => b >= 0
  /\ a <= 0 => b <= 0
  /\ Abs(1000 * (Abs(a) - Abs(b)) - CAMERA_RETURN_SPEED * Abs(a)) <= 500

\* C19: in a tick with both look keys of an axis released the offset of the
\* axis is multiplied by 1 - CAMERA_RETURN_SPEED: its magnitude does not
\* grow, its sign does not flip, and it shrinks towards 0.
C19_ReturnContracts ==
  [][(ev'.kind = "frame" /\ ~gameOver /\ avatar # "none")
       => /\ ("j" \notin controls /\ "l" \notin controls)
               => Contracts(cameraAngleY, cameraAngleY')
          /\ ("i" \notin controls /\ "k" \notin controls)
               => Contracts(cameraAngleX, cameraAngleX')]_vars

C19_ReturnedToTheCentre ==
  /\ ev.kind = "frame" /\ controls = {}
  /\ 0 - Resolution < cameraAngleX /\ cameraAngleX < 0
  /\ cameraAngleY = 0

\* C20: in one tick the maintenance of the registry creates at most
\* BatchLimit planets and removes at most BatchLimit planets (the planet the
\* laser destroyed in the tick is not removed by the maintenance).
C20_BatchPerTick ==
  [][ev'.kind \in {"frame", "load"}
       => /\ Cardinality(Ids(planets') \ Ids(planets)) <= BatchLimit
          /\ Cardinality(Ids(planets) \ (Ids(planets') \cup {ev'.hit.id}))
               <= BatchLimit]_vars

C20_FullBatches ==
  /\ ev.kind = "frame" /\ frames = 2 /\ inputs = 0
  /\ Len(planets) = Len(InitState(1).planets) + 2 * BatchLimit

\* Both keys of a pair are held.
Both(plus, minus) == plus \in controls /\ minus \in controls

\* C21: in a tick of a running match with both keys of an opposing pair held,
\* the component the pair drives is the same after the tick as before it:
\* avatar position (w+s, q+e), avatar yaw (a+d), camera yaw offset (j+l),
\* camera pitch offset (i+k).
C21_OpposingKeysCancel ==
  [][(ev'.kind = "frame" /\ ~gameOver /\ avatar # "none")
       => /\ (Both("w", "s") /\ "q" \notin controls /\ "e" \notin controls)
               => position' = position
          /\ (Both("q", "e") /\ "w" \notin controls /\ "s" \notin controls)
               => position' = position
          /\ Both("a", "d") => rotation' = rotation
          /\ Both("j", "l") => cameraAngleY' = cameraAngleY
          /\ Both("i", "k") => cameraAngleX' = cameraAngleX]_vars

\* C22: every increase of the score is the hit of a planet and lies in the
\* point range of the category of that planet.
C22_IncrementInRange ==
  [][score' > score
       => \E i \in 1..Len(planets) :
            /\ planets[i].id = ev'.hit.id
            /\ score' - score >= PLANET_CONFIG[planets[i].category].minPoints
            /\ score' - score <= PLANET_CONFIG[planets[i].category].maxPoints]_vars

\* C23: the game-over screen shows the score endGame finds, which is the
\* score before the ending tick; the ending tick scores nothing after it, and
\* no step other than the restart changes the score while the game is over.
C23_FinalScore ==
  [][/\ (~gameOver /\ gameOver') => score' = score
     /\ (gameOver /\ ev'.kind # "restart") => score' = score]_vars

C23_EndWhileFiring ==
  /\ gameOver /\ ticks = EndTick
  /\ ev.kind = "frame" /\ ev.wasActive /\ ev.prevKind = "mousedown"
  /\ ~laserActive /\ laser = NULL

\* C24: a tick of a running match that starts with TotalTarget live planets
\* ends with TotalTarget live planets, whatever the laser destroys in it.
C24_PopulationHeld ==
  [][(ev'.kind = "frame" /\ ~gameOver /\ Len(planets) = TotalTarget)
       => Len(planets') = TotalTarget]_vars

\* The planets the eviction test of updatePlanets finds in a tick taken from
\* state s: those left by the updates before it, refilled.
BeforeEviction(r) == IF r.threw THEN r.s.planets ELSE Refilled(r.s).planets

EvictionTest(s) ==
  BeforeEviction(updateLaser(updateCamera(updateAvatarMovement(
    updateGameTime(s)))))

\* C25: no state has more than TotalTarget live planets, and in no tick does
\* updatePlanets find more than TotalTarget planets at its eviction test.
C25_NeverAboveTarget ==
  /\ Len(planets) <= TotalTarget
  /\ ~gameOver => Len(EvictionTest(G)) <= TotalTarget

C25_RefilledToTarget ==
  /\ ev.kind = "frame" /\ ev.hit # NoHit /\ ev.hit.object = "planet"
  /\ Len(planets) = TotalTarget /\ ~gameOver

\* C26: at most one requestAnimationFrame callback of animate is pending in
\* every state, so that one display frame runs one tick.
C26_SingleLoop == raf <= 1

\* C27: while the game is over the laser is idle: it does not fire and there
\* is no beam, whatever mouse events arrive.
C27_NoFireWhenEnded == gameOver => (~laserActive /\ laser = NULL)

\* C28: whenever the laser fires there is a beam with its aim ray.
C28_FiringHasBeam == laserActive => laser # NULL

\* C29: the laser never fires while a cooldown is left, and at the end of a
\* tick of a running match in which it still fires its burn time is below
\* LASER_MAX_DURATION.
C29_OnePhase ==
  laserActive
    => /\ FLe(cooldownTime, FZero)
       /\ (ev.kind \in {"frame", "load"} /\ ~gameOver)
            => FLt(laserTime, LASER_MAX_DURATION)

\* C30: once the load of the avatar has ended, with the asset or with the
\* fallback avatar, the loop is started: a first tick has run or a
\* requestAnimationFrame callback of animate is pending and will run it.
C30_LoopStarted == avatar # "none" => (ticks > 0 \/ raf > 0)

=============================================================================
